---- MODULE Spec2Model ----
(***************************************************************************)
(* pfhedge.stochastic.rough_bergomi.generate_rough_bergomi as a state      *)
(* machine.                                                                *)
(*                                                                         *)
(* One invocation runs from pc = "start" to pc = "done" (the function      *)
(* returns SpotVarianceTuple(prices, variance)) or pc = "error" (an        *)
(* exception propagates to the caller).                                    *)
(*                                                                         *)
(* Numbers.  A float is modelled by a fixed-point integer: the integer v   *)
(* stands for the real v / Scale.  Finite floats have |v| <= FloatMax;     *)
(* beyond it arithmetic overflows to PInf / NInf as IEEE-754 does, results *)
(* smaller than half a unit round to 0 (underflow), and invalid operations *)
(* give NaN, which propagates.  Tensors are sequences (1-based; the        *)
(* 0-based index i of the source is position i + 1).                       *)
(***************************************************************************)
EXTENDS Integers, Sequences, FiniteSets, TLC

\* ------------------------------------------------------------------------
\* Bounds of the model
\* ------------------------------------------------------------------------

\* Fixed-point resolution: units per 1.0.
Scale ==
    1000

\* Largest finite magnitude (in units): the stand-in for the float maximum.
FloatMax ==
    1000000

\* Largest n_paths explored.
MaxPaths ==
    2

\* Largest n_steps explored.
MaxSteps ==
    4

\* Seeds 0..MaxSeed of the random source are explored.
MaxSeed ==
    1

\* ------------------------------------------------------------------------
\* Float arithmetic (IEEE-754 semantics on the fixed-point stand-in)
\* ------------------------------------------------------------------------

PInf == FloatMax + 1
NInf == 0 - (FloatMax + 1)
NaN == FloatMax + 2

IsFinite(x) == x >= 0 - FloatMax /\ x <= FloatMax

Abs(x) == IF x < 0 THEN 0 - x ELSE x

Sign(x) == IF x < 0 THEN 0 - 1 ELSE IF x > 0 THEN 1 ELSE 0

\* n / d rounded to nearest (ties away from zero), d > 0.
RoundDiv(n, d) == Sign(n) * ((Abs(n) + d \div 2) \div d)

\* A finite result, overflowing to the infinities.
Clamp(v) == IF v > FloatMax THEN PInf ELSE IF v < 0 - FloatMax THEN NInf ELSE v

SignedInf(s) == IF s < 0 THEN NInf ELSE PInf

FNeg(a) == IF a = NaN THEN NaN ELSE 0 - a

FAdd(a, b) ==
    IF a = NaN \/ b = NaN THEN NaN
    ELSE IF ~IsFinite(a) /\ ~IsFinite(b) THEN (IF a = b THEN a ELSE NaN)
    ELSE IF ~IsFinite(a) THEN a
    ELSE IF ~IsFinite(b) THEN b
    ELSE Clamp(a + b)

FSub(a, b) == FAdd(a, FNeg(b))

FMul(a, b) ==
    IF a = NaN \/ b = NaN THEN NaN
    ELSE IF a = 0 \/ b = 0 THEN (IF IsFinite(a) /\ IsFinite(b) THEN 0 ELSE NaN)
    ELSE IF ~IsFinite(a) \/ ~IsFinite(b) THEN SignedInf(Sign(a) * Sign(b))
    ELSE IF Abs(a) > (FloatMax * Scale) \div Abs(b) THEN SignedInf(Sign(a) * Sign(b))
    ELSE Clamp(RoundDiv(a * b, Scale))

\* Tensor division: x / 0 is an infinity or NaN, never an exception.
FDiv(a, b) ==
    IF a = NaN \/ b = NaN THEN NaN
    ELSE IF ~IsFinite(a) /\ ~IsFinite(b) THEN NaN
    ELSE IF ~IsFinite(b) THEN 0
    ELSE IF b = 0 THEN (IF a = 0 THEN NaN ELSE SignedInf(Sign(a)))
    ELSE IF ~IsFinite(a) THEN SignedInf(Sign(a) * Sign(b))
    ELSE IF Abs(a) > (FloatMax \div Scale + 1) * Abs(b) THEN SignedInf(Sign(a) * Sign(b))
    ELSE Clamp(Sign(b) * RoundDiv(a * Scale, Abs(b)))

\* Integer square root by bisection: the largest r with r * r <= n.
RECURSIVE ISqrtIn(_, _, _)
ISqrtIn(n, lo, hi) ==
    IF lo >= hi THEN lo
    ELSE LET mid == (lo + hi + 1) \div 2
         IN  IF mid * mid <= n THEN ISqrtIn(n, mid, hi) ELSE ISqrtIn(n, lo, mid - 1)

ISqrt(n) == ISqrtIn(n, 0, 40000)

FSqrt(a) ==
    IF a = NaN \/ a < 0 THEN NaN
    ELSE IF a = PInf THEN PInf
    ELSE ISqrt(a * Scale)

\* e in units.
EulerE == RoundDiv(27183 * Scale, 10000)

\* Sum of the Taylor series of e^(r / Scale), 0 <= r < Scale, from term n on.
RECURSIVE ExpSeries(_, _, _)
ExpSeries(r, term, n) ==
    IF term = 0 \/ n > 12 THEN 0
    ELSE term + ExpSeries(r, RoundDiv(term * r, n * Scale), n + 1)

\* e^q in units, q a natural number small enough not to overflow.
RECURSIVE ExpInt(_)
ExpInt(q) == IF q = 0 THEN Scale ELSE RoundDiv(ExpInt(q - 1) * EulerE, Scale)

\* Every argument above ExpMaxArg has an exponential beyond FloatMax:
\* (q + 1) * Scale - 1 for the largest whole q with e^q <= FloatMax / Scale.
RECURSIVE ExpMaxArgIn(_, _)
ExpMaxArgIn(q, p) ==
    IF RoundDiv(p * EulerE, Scale) > FloatMax THEN (q + 1) * Scale - 1
    ELSE ExpMaxArgIn(q + 1, RoundDiv(p * EulerE, Scale))

ExpMaxArg == ExpMaxArgIn(0, Scale)

\* e^(x / Scale) in units for 0 <= x <= ExpMaxArg.
ExpPos(x) == RoundDiv(ExpInt(x \div Scale) * ExpSeries(x % Scale, Scale, 1), Scale)

FExp(a) ==
    IF a = NaN THEN NaN
    ELSE IF a = PInf THEN PInf
    ELSE IF a = NInf THEN 0
    ELSE IF a > ExpMaxArg THEN PInf
    ELSE IF a >= 0 THEN Clamp(ExpPos(a))
    ELSE IF 0 - a > ExpMaxArg THEN 0   \* below one unit: underflow to zero
    ELSE RoundDiv(Scale * Scale, ExpPos(0 - a))

\* ln 2 in units.
Ln2 == RoundDiv(6931 * Scale, 10000)

\* 2 * atanh(z) = ln((1 + z) / (1 - z)) by its series, z in units, 0 <= z <= 1/3.
AtanhSeries(z) ==
    LET z2 == RoundDiv(z * z, Scale)
        z3 == RoundDiv(z * z2, Scale)
        z5 == RoundDiv(z3 * z2, Scale)
        z7 == RoundDiv(z5 * z2, Scale)
        z9 == RoundDiv(z7 * z2, Scale)
    IN  2 * z + RoundDiv(2 * z3, 3) + RoundDiv(2 * z5, 5) + RoundDiv(2 * z7, 7)
          + RoundDiv(2 * z9, 9)

\* ln(x / Scale) in units for a finite x > 0.
RECURSIVE LnPos(_)
LnPos(x) ==
    IF x >= 2 * Scale THEN Ln2 + LnPos(RoundDiv(x, 2))
    ELSE IF x < Scale THEN LnPos(2 * x) - Ln2
    ELSE AtanhSeries(RoundDiv((x - Scale) * Scale, x + Scale))

\* Whether the finite value y is a whole number, and whether it is an odd one.
IsWhole(y) == y % Scale = 0
IsOdd(y) == IsWhole(y) /\ (y \div Scale) % 2 = 1

\* torch.pow / Tensor.__pow__ on finite or special operands.
FPow(x, y) ==
    IF y = 0 THEN Scale
    ELSE IF x = NaN \/ y = NaN THEN NaN
    ELSE IF x = Scale THEN Scale
    ELSE IF ~IsFinite(y) THEN
        (IF x = 0 - Scale THEN Scale
         ELSE IF (Abs(x) > Scale) = (y = PInf) THEN PInf ELSE 0)
    ELSE IF x = 0 THEN (IF y > 0 THEN 0 ELSE PInf)
    ELSE IF x = PInf THEN (IF y > 0 THEN PInf ELSE 0)
    ELSE IF x = NInf THEN
        (IF y > 0 THEN (IF IsOdd(y) THEN NInf ELSE PInf) ELSE 0)
    ELSE IF x < 0 THEN
        (IF ~IsWhole(y) THEN NaN
         ELSE LET m == FExp(FMul(y, LnPos(0 - x)))
              IN  IF IsOdd(y) THEN FNeg(m) ELSE m)
    ELSE FExp(FMul(y, LnPos(x)))

\* ------------------------------------------------------------------------
\* Tensor helpers
\* ------------------------------------------------------------------------

\* torch.zeros([n])
Zeros(n) == [i \in 1..n |-> 0]

\* torch.arange(lo, hi) with the default step 1 raises RuntimeError when
\* hi < lo ("upper bound and larger bound inconsistent with step sign").
ArangeRaises(lo, hi) == hi < lo

\* torch.arange(lo, hi) as floats, hi >= lo: lo, lo + 1, ..., hi - 1.
Arange(lo, hi) == [i \in 1..(hi - lo) |-> (lo + i - 1) * Scale]

\* Mutant of Reversed: the kernel is not reversed.
Reversed_Identity(s) == s

\* Tensor.__reversed__ on a one-dimensional tensor.
Reversed(s) == [i \in 1..Len(s) |-> s[Len(s) + 1 - i]]

\* A tensor given by an index expression, with every entry computed: a row,
\* and a sequence of rows.
Row(f) == f \o <<>>
Rows(f) == [p \in 1..Len(f) |-> Row(f[p])] \o <<>>

\* Row p (1-based) of a row-major [rows, width] tensor stored flat.
RowOf(flat, p, width) == [j \in 1..width |-> flat[(p - 1) * width + j]]

\* torch.cumsum along the time dimension of one row.
Cumsum(s) ==
    LET c[i \in 1..Len(s)] == IF i = 1 THEN s[1] ELSE FAdd(c[i - 1], s[i])
    IN  [i \in 1..Len(s) |-> c[i]]

\* ------------------------------------------------------------------------
\* The random source: torch's default generator after torch.manual_seed(seed)
\* ------------------------------------------------------------------------

\* The k-th standard normal value (k = 1, 2, ...) of the stream of a seed: a
\* fixed function of (seed, k), in quarter units between -1.25 and 1.25.
Normal(sd, k) == (((sd * 31 + k * 17 + k * k * 7) % 11) - 5) * (Scale \div 4)

\* ------------------------------------------------------------------------
\* Lines 89-105: defaults, casts and the bivariate normal generator
\* ------------------------------------------------------------------------

None == <<>>

\* if init_state is None: init_state = (1.0, xi)
DefaultInitState(init, x) == IF init = None THEN <<Scale, x>> ELSE init

\* Python raises ZeroDivisionError on `dt ** (alpha + 1) / (alpha + 1)` or on
\* `dt ** (2 * alpha + 1) / (2 * alpha + 1)`: a zero divisor, or 0.0 to a
\* negative power.
RaisesZeroDivision(d, a) ==
    \/ a + Scale = 0
    \/ 2 * a + Scale = 0
    \/ d = 0 /\ (a + Scale < 0 \/ 2 * a + Scale < 0)

\* _dW1_cov1 and _dW1_cov2 (d >= 0, no ZeroDivisionError).
dW1_cov1(d, a) == FDiv(FPow(d, a + Scale), a + Scale)
dW1_cov2(d, a) == FDiv(FPow(d, 2 * a + Scale), 2 * a + Scale)

\* The Cholesky factor <<L00, L10, L11>> of [[dt, c1], [c1, c2]] that
\* MultivariateNormal keeps as scale_tril.
CholeskyOf(d, c1, c2) ==
    LET l00 == FSqrt(d)
        l10 == FDiv(c1, l00)
        l11 == FSqrt(FSub(c2, FMul(l10, l10)))
    IN  <<l00, l10, l11>>

\* MultivariateNormal accepts only a positive definite covariance matrix:
\* both pivots of the factorization are positive and finite.
PositiveDefinite(d, c1, c2) ==
    LET piv == FSub(c2, FMul(FDiv(c1, FSqrt(d)), FDiv(c1, FSqrt(d))))
    IN  /\ d > 0 /\ IsFinite(d)
        /\ IsFinite(c1)
        /\ IsFinite(piv) /\ piv > 0

\* ------------------------------------------------------------------------
\* Lines 107-109: the draws
\* ------------------------------------------------------------------------

\* Mutant of SampleOrder: dW2 is sampled before dW1.
SampleOrder_Swapped == <<"dW2", "dW1">>

\* The order of the two sampling statements.
SampleOrder == <<"dW1", "dW2">>

\* One sample of _dW1_generator from two standard normals: loc + scale_tril @ eps.
PairValue(L, e0, e1) == <<FMul(L[1], e0), FAdd(FMul(L[2], e0), FMul(L[3], e1))>>

\* One element of dW2: torch.randn scaled in place by sqrt(dt).
W2Value(z, d) == FMul(z, FSqrt(d))

\* Elements of a [n_paths, n_steps - 1] sample.
SampleSize(np, ns) == np * (ns - 1)

\* ------------------------------------------------------------------------
\* Lines 111-129: the Volterra process Y
\* ------------------------------------------------------------------------

\* dW1[:, :, 0] and dW1[:, :, 1] of one path.
XiOf(dW1row) == [j \in 1..Len(dW1row) |-> dW1row[j][1]]
ZOf(dW1row) == [j \in 1..Len(dW1row) |-> dW1row[j][2]]

\* _Y1 of one path: a zero column, then dW1[:, :, 1].
Y1Of(dW1row) == <<0>> \o ZOf(dW1row)

\* discrete_TBSS_fn(k, a) for one entry k of the tensor; a is not 0.
discrete_TBSS_fn(k, a) ==
    FPow(FDiv(FSub(FPow(k, a + Scale), FPow(k - Scale, a + Scale)), a + Scale),
         FDiv(Scale, a))

\* Mutant of GammaOf: one zero is prepended instead of two.
GammaOf_OneZero(a, ns) ==
    LET ks == Arange(2, ns)
    IN  Zeros(1) \o [i \in 1..Len(ks) |->
                        FPow(FDiv(discrete_TBSS_fn(ks[i], a), (ns - 1) * Scale), a)]

\* _gamma: two zeros, then (discrete_TBSS_fn(arange(2, n_steps), alpha) / (n_steps - 1)) ** alpha.
GammaOf(a, ns) ==
    LET ks == Arange(2, ns)
    IN  Zeros(2) \o [i \in 1..Len(ks) |->
                        FPow(FDiv(discrete_TBSS_fn(ks[i], a), (ns - 1) * Scale), a)]

\* torch.nn.functional.conv1d(input, weight, padding) raises RuntimeError: a
\* negative padding, an empty kernel, or a kernel longer than the padded input.
Conv1dRaises(input, weight, padding) ==
    \/ padding < 0
    \/ Len(weight[1]) = 0
    \/ Len(input) + 2 * padding < Len(weight[1])

\* conv1d of a [1, 1, L] input with a [N, 1, K] weight: a cross-correlation of
\* the zero-padded input with each output channel's kernel; row c is channel c.
Conv1d(input, weight, padding) ==
    LET K == Len(weight[1])
        padded(y) == IF y - padding >= 1 /\ y - padding <= Len(input)
                     THEN input[y - padding] ELSE 0
        outLen == Len(input) + 2 * padding - K + 1
        dot(c, m) ==
            LET acc[k \in 0..K] ==
                    IF k = 0 THEN 0
                    ELSE FAdd(acc[k - 1], FMul(padded(m + k - 1), weight[c][k]))
            IN  acc[K]
    IN  Rows([c \in 1..Len(weight) |-> [m \in 1..outLen |-> dot(c, m)]])

\* _GXi_convolve: the reversed kernel is the input, the paths' _Xi are the weight.
GXiConvolveOf(g, Xi) == Conv1d(Reversed(g), Xi, Len(Xi[1]) - 1)

\* _Y2 of one path: columns -1, -2, ..., -n_steps of its _GXi_convolve row
\* (column -m of a row of length L is position L - m + 1).
Y2Of(convRow, ns) == [i \in 1..ns |-> convRow[Len(convRow) - i + 1]]

\* The gather raises IndexError when an index is out of range.
GatherRaises(convRow, ns) == ns > Len(convRow)

\* Y = sqrt(2 * alpha + 1) * (_Y1 + _Y2) of one path.
YOf(a, y1, y2) ==
    LET scale == FSqrt(FAdd(2 * a, Scale))
    IN  [i \in 1..Len(y1) |-> FMul(scale, FAdd(y1[i], y2[i]))]

\* ------------------------------------------------------------------------
\* Lines 130-144: variance and price
\* ------------------------------------------------------------------------

\* 0.5
Half == Scale \div 2

\* dB = rho * dW1[:, :, 0] + sqrt(1 - rho ** 2) * dW2 of one path.
dBOf(r, dW1row, dW2row) ==
    LET orth == FSqrt(FSub(Scale, FMul(r, r)))
    IN  [j \in 1..Len(dW2row) |-> FAdd(FMul(r, dW1row[j][1]), FMul(orth, dW2row[j]))]

\* Mutant of VarianceOf: the time grid starts at dt (arange(1, n_steps + 1)).
VarianceOf_NextTime(v0, e, a, d, Yrow, ns) ==
    [i \in 1..ns |->
        FMul(v0, FExp(FSub(FMul(e, Yrow[i]),
                           FMul(FMul(Half, FMul(e, e)),
                                FPow(FMul(i * Scale, d), FAdd(2 * a, Scale))))))]

\* variance of one path:
\* init_state[1] * exp(eta * Y - 0.5 * eta ** 2 * (arange(0, n_steps) * dt) ** (2 * alpha + 1)).
VarianceOf(v0, e, a, d, Yrow, ns) ==
    [i \in 1..ns |->
        FMul(v0, FExp(FSub(FMul(e, Yrow[i]),
                           FMul(FMul(Half, FMul(e, e)),
                                FPow(FMul((i - 1) * Scale, d), FAdd(2 * a, Scale))))))]

\* Mutant of IncrementsOf: the right-point variance variance[:, 1:] is used.
IncrementsOf_RightPoint(varRow, dBrow, d) ==
    [j \in 1..(Len(varRow) - 1) |->
        FSub(FMul(FSqrt(varRow[j + 1]), dBrow[j]), FMul(FMul(Half, varRow[j + 1]), d))]

\* _increments of one path: variance[:, :-1].sqrt() * dB - 0.5 * variance[:, :-1] * dt.
IncrementsOf(varRow, dBrow, d) ==
    [j \in 1..(Len(varRow) - 1) |->
        FSub(FMul(FSqrt(varRow[j]), dBrow[j]), FMul(FMul(Half, varRow[j]), d))]

\* Mutant of LogReturnOf: the zero column is concatenated after the sums.
LogReturnOf_ZeroLast(incr) == Cumsum(incr) \o <<0>>

\* log_return of one path: a zero column, then the cumulative sum of the increments.
LogReturnOf(incr) == <<0>> \o Cumsum(incr)

\* prices of one path: init_state[0] * log_return.exp().
PricesOf(s0, logret) == [i \in 1..Len(logret) |-> FMul(s0, FExp(logret[i]))]

\* ------------------------------------------------------------------------
\* State
\* ------------------------------------------------------------------------

VARIABLES
    n_paths, n_steps, init_state, alpha, rho, eta, xi, dt,  \* the arguments
    seed,        \* the seed the random source was set to before the call
    pc,          \* the statement the call is at: "start", "sample", "volterra",
                 \* "variance", "price", "done" (returned) or "error" (raised)
    err,         \* the exception raised, "" if none
    state0,      \* init_state after the default and cast_state
    scale_tril,  \* the generator's Cholesky factor
    stage,       \* which sampling statement (index into SampleOrder) is running
    rngPos,      \* standard normals consumed from the random source so far
    drawLog,     \* the draws taken so far, in order: "dW1" (a pair) or "dW2"
    dW1,         \* [n_paths, n_steps - 1] pairs, row-major, as drawn so far
    dW2,         \* [n_paths, n_steps - 1] values, row-major, as drawn so far
    gamma,       \* _gamma
    Y2,          \* _Y2, a row per path
    Y,           \* Y, a row per path
    variance,    \* variance, a row per path
    prices       \* prices, a row per path

args == <<n_paths, n_steps, init_state, alpha, rho, eta, xi, dt, seed>>
draws == <<stage, rngPos, drawLog, dW1, dW2>>
volterra == <<gamma, Y2, Y>>
vars == <<args, pc, err, state0, scale_tril, draws, volterra, variance, prices>>

\* The argument values explored (floats in units).
AlphaValues ==
    {0 - Scale, 0 - (3 * Scale) \div 4, 0 - Scale \div 2, 0 - (2 * Scale) \div 5,
     0 - Scale \div 5}
RhoValues == {0 - Scale, (3 * Scale) \div 5, 2 * Scale}
EtaValues == {0 - Scale, (19 * Scale) \div 10, 10 * Scale}
XiValues == {0 - Scale \div 4, Scale \div 4}
DtValues == {0, Scale \div 4}
InitStateValues == {None, <<2 * Scale, Scale>>}

Init ==
    /\ n_paths \in 1..MaxPaths
    /\ n_steps \in 0..MaxSteps
    /\ init_state \in InitStateValues
    /\ alpha \in AlphaValues
    /\ rho \in RhoValues
    /\ eta \in EtaValues
    /\ xi \in XiValues
    /\ dt \in DtValues
    /\ seed \in 0..MaxSeed
    /\ pc = "start"
    /\ err = ""
    /\ state0 = <<>>
    /\ scale_tril = <<>>
    /\ stage = 0
    /\ rngPos = 0
    /\ drawLog = <<>>
    /\ dW1 = <<>>
    /\ dW2 = <<>>
    /\ gamma = <<>>
    /\ Y2 = <<>>
    /\ Y = <<>>
    /\ variance = <<>>
    /\ prices = <<>>

\* An exception leaves the call.
Raise(e) == pc' = "error" /\ err' = e

\* ------------------------------------------------------------------------
\* Actions
\* ------------------------------------------------------------------------

\* Lines 89-105: the default init_state, the casts, the covariance matrix and
\* the generator.
Setup ==
    /\ pc = "start"
    /\ state0' = DefaultInitState(init_state, xi)
    /\ IF RaisesZeroDivision(dt, alpha)
       THEN Raise("ZeroDivisionError") /\ UNCHANGED <<scale_tril, stage>>
       ELSE LET c1 == dW1_cov1(dt, alpha)
                c2 == dW1_cov2(dt, alpha)
            IN  IF ~PositiveDefinite(dt, c1, c2)
                THEN Raise("ValueError") /\ UNCHANGED <<scale_tril, stage>>
                ELSE /\ scale_tril' = CholeskyOf(dt, c1, c2)
                     /\ stage' = 1
                     /\ pc' = "sample"
                     /\ err' = err
    /\ UNCHANGED <<args, rngPos, drawLog, dW1, dW2, volterra, variance, prices>>

\* The sampling statement after this one, or the Volterra block after the last.
Advance ==
    /\ stage' = stage + 1
    /\ pc' = IF stage = Len(SampleOrder) THEN "volterra" ELSE "sample"
    /\ err' = err

\* Line 107: dW1 = _dW1_generator.sample([n_paths, n_steps - 1]), one pair of
\* the sample per step, each from the next two standard normals of the source.
Sample_dW1 ==
    /\ pc = "sample"
    /\ SampleOrder[stage] = "dW1"
    /\ IF n_steps - 1 < 0
       THEN Raise("RuntimeError") /\ UNCHANGED draws
       ELSE IF Len(dW1) < SampleSize(n_paths, n_steps)
       THEN /\ dW1' = Append(dW1, PairValue(scale_tril, Normal(seed, rngPos + 1),
                                            Normal(seed, rngPos + 2)))
            /\ rngPos' = rngPos + 2
            /\ drawLog' = Append(drawLog, "dW1")
            /\ IF Len(dW1) + 1 = SampleSize(n_paths, n_steps)
               THEN Advance
               ELSE UNCHANGED <<pc, err, stage>>
            /\ UNCHANGED dW2
       ELSE Advance /\ UNCHANGED <<rngPos, drawLog, dW1, dW2>>
    /\ UNCHANGED <<args, state0, scale_tril, volterra, variance, prices>>

\* Lines 108-109: dW2 = torch.randn([n_paths, n_steps - 1]) scaled by sqrt(dt),
\* one element per step, each from the next standard normal of the source.
Sample_dW2 ==
    /\ pc = "sample"
    /\ SampleOrder[stage] = "dW2"
    /\ IF n_steps - 1 < 0
       THEN Raise("RuntimeError") /\ UNCHANGED draws
       ELSE IF Len(dW2) < SampleSize(n_paths, n_steps)
       THEN /\ dW2' = Append(dW2, W2Value(Normal(seed, rngPos + 1), dt))
            /\ rngPos' = rngPos + 1
            /\ drawLog' = Append(drawLog, "dW2")
            /\ IF Len(dW2) + 1 = SampleSize(n_paths, n_steps)
               THEN Advance
               ELSE UNCHANGED <<pc, err, stage>>
            /\ UNCHANGED dW1
       ELSE Advance /\ UNCHANGED <<rngPos, drawLog, dW1, dW2>>
    /\ UNCHANGED <<args, state0, scale_tril, volterra, variance, prices>>

\* The rows (one per path) of the two samples.
dW1Rows == Rows([p \in 1..n_paths |-> RowOf(dW1, p, n_steps - 1)])
dW2Rows == Rows([p \in 1..n_paths |-> RowOf(dW2, p, n_steps - 1)])

\* Mutant of Y2Rows: every path gathers from the first output channel.
Y2Rows_FirstChannel(g, rows, ns) ==
    LET conv == GXiConvolveOf(g, Rows([p \in 1..Len(rows) |-> XiOf(rows[p])]))
    IN  [p \in 1..Len(rows) |-> Y2Of(conv[1], ns)]

\* _Y2 of every path from the kernel and the pair draws.
Y2Rows(g, rows, ns) ==
    LET conv == GXiConvolveOf(g, Rows([p \in 1..Len(rows) |-> XiOf(rows[p])]))
    IN  [p \in 1..Len(rows) |-> Y2Of(conv[p], ns)]

\* Y of every path.
YRows(a, rows, y2) == [p \in 1..Len(rows) |-> YOf(a, Y1Of(rows[p]), y2[p])]

\* Lines 111-129: _Y1, the kernel _gamma, the convolution, _Y2 and Y.
BuildVolterra ==
    /\ pc = "volterra"
    /\ IF ArangeRaises(2, n_steps)
       THEN Raise("RuntimeError") /\ UNCHANGED volterra
       ELSE /\ gamma' = GammaOf(alpha, n_steps)
            /\ LET Xi == Rows([p \in 1..n_paths |-> XiOf(dW1Rows[p])])
               IN  IF Conv1dRaises(Reversed(gamma'), Xi, Len(Xi[1]) - 1)
                   THEN Raise("RuntimeError") /\ UNCHANGED <<Y2, Y>>
                   ELSE IF GatherRaises(GXiConvolveOf(gamma', Xi)[1], n_steps)
                   THEN Raise("IndexError") /\ UNCHANGED <<Y2, Y>>
                   ELSE /\ Y2' = Y2Rows(gamma', dW1Rows, n_steps)
                        /\ Y' = YRows(alpha, dW1Rows, Y2')
                        /\ pc' = "variance"
                        /\ err' = err
    /\ UNCHANGED <<args, state0, scale_tril, draws, variance, prices>>

\* variance of every path.
VarianceRows(v0, e, a, d, y, ns) ==
    [p \in 1..Len(y) |-> VarianceOf(v0, e, a, d, y[p], ns)]

\* Lines 130-137: dB and the variance (dB is used by the next statement only).
BuildVariance ==
    /\ pc = "variance"
    /\ variance' = VarianceRows(state0[2], eta, alpha, dt, Y, n_steps)
    /\ pc' = "price"
    /\ UNCHANGED <<args, err, state0, scale_tril, draws, volterra, prices>>

\* prices of every path.
PriceRows(s0, r, d, rows1, rows2, var) ==
    [p \in 1..Len(var) |->
        PricesOf(s0, LogReturnOf(Row(IncrementsOf(var[p], Row(dBOf(r, rows1[p], rows2[p])), d))))]

\* Lines 139-146: the increments, their cumulative sum, the prices, and the
\* return of SpotVarianceTuple(prices, variance).
BuildPrice ==
    /\ pc = "price"
    /\ prices' = PriceRows(state0[1], rho, dt, dW1Rows, dW2Rows, variance)
    /\ pc' = "done"
    /\ UNCHANGED <<args, err, state0, scale_tril, draws, volterra, variance>>

Next ==
    \/ Setup
    \/ Sample_dW1
    \/ Sample_dW2
    \/ BuildVolterra
    \/ BuildVariance
    \/ BuildPrice

Spec == Init /\ [][Next]_vars

\* ------------------------------------------------------------------------
\* What the claims speak of
\* ------------------------------------------------------------------------

\* The caller's initial state (S0, V0): the one supplied, or (1.0, xi).
S0 == IF init_state = None THEN Scale ELSE init_state[1]
V0 == IF init_state = None THEN xi ELSE init_state[2]

\* The call has returned (prices, variance).
Returned == pc = "done"

\* The Volterra block has run to its end.
VolterraBuilt == pc \in {"variance", "price", "done"}

\* The parameters the specification calls invalid.
InvalidParameter ==
    \/ dt <= 0
    \/ rho < 0 - Scale \/ rho > Scale
    \/ eta < 0
    \/ xi < 0
    \/ n_steps < 1
    \/ n_paths < 1
    \/ alpha <= 0 - Scale

\* Parameters valid in the narrowest sense of the specification: none of the
\* above, strictly positive eta, xi and initial state, alpha in (-1/2, 0).
ValidParameters ==
    /\ ~InvalidParameter
    /\ eta > 0 /\ xi > 0 /\ S0 > 0 /\ V0 > 0
    /\ 2 * alpha + Scale > 0 /\ alpha < 0

\* Other draws: the pairs, and the dW2 elements, of the paths in P at the
\* (1-based) indices in J replaced by different values.
PerturbPair(rows, P, J) ==
    Rows([p \in 1..Len(rows) |-> [j \in 1..Len(rows[p]) |->
        IF p \in P /\ j \in J
        THEN <<FAdd(rows[p][j][1], Scale), FAdd(rows[p][j][2], Scale)>>
        ELSE rows[p][j]]])
PerturbW2(rows, P, J) ==
    Rows([p \in 1..Len(rows) |-> [j \in 1..Len(rows[p]) |->
        IF p \in P /\ j \in J THEN FAdd(rows[p][j], Scale) ELSE rows[p][j]]])

\* The whole computation of lines 111-144 on given draws (n_steps >= 2):
\* the record of Y, variance and spot rows.
Simulate(ns, s0, v0, a, r, e, d, rows1, rows2) ==
    LET y == Rows(YRows(a, rows1, Y2Rows(GammaOf(a, ns), rows1, ns)))
        v == Rows(VarianceRows(v0, e, a, d, y, ns))
    IN  [Y |-> y, variance |-> v, spot |-> Rows(PriceRows(s0, r, d, rows1, rows2, v))]

\* ------------------------------------------------------------------------
\* C1
\* ------------------------------------------------------------------------

CausalSum(g, x, i) ==
    LET acc[j \in 0..(i - 1)] ==
            IF j = 0 THEN 0 ELSE FAdd(acc[j - 1], FMul(g[i - j + 1], x[j]))
    IN  acc[i - 1]

C3_InvalidRejected ==
    InvalidParameter =>
        /\ ~Returned
        /\ rngPos = 0
        /\ prices = <<>> /\ variance = <<>>

\* ------------------------------------------------------------------------
\* C4
\* ------------------------------------------------------------------------

\* C4: with n_steps = 1 and otherwise valid parameters the call does not
\* raise, and when it has returned both arrays have one column, equal to S0
\* and V0, and no draw was consumed.
C4_SingleStep ==
    (n_steps = 1 /\ ValidParameters) =>
        /\ pc # "error"
        /\ Returned =>
              /\ rngPos = 0
              /\ \A p \in 1..n_paths : prices[p] = <<S0>> /\ variance[p] = <<V0>>

\* ------------------------------------------------------------------------
\* C5
\* ------------------------------------------------------------------------

\* The exponent of the variance at the 1-based position i of path p.
VarianceExponent(p, i) ==
    FSub(FMul(eta, Y[p][i]),
         FMul(FMul(Half, FMul(eta, eta)),
              FPow(FMul((i - 1) * Scale, dt), FAdd(2 * alpha, Scale))))

RefdB(p, j) ==
    FAdd(FMul(rho, dW1Rows[p][j][1]),
         FMul(FSqrt(FSub(Scale, FMul(rho, rho))), dW2Rows[p][j]))

RefIncrement(p, j) ==
    FSub(FMul(FSqrt(variance[p][j]), RefdB(p, j)), FMul(FMul(Half, variance[p][j]), dt))

\* L[i] of path p: 0 at the first position, else the sum of r[j] over j < i.
RefLogReturn(p, i) ==
    LET acc[j \in 1..i] ==
            IF j = 1 THEN 0
            ELSE IF j = 2 THEN RefIncrement(p, 1)
            ELSE FAdd(acc[j - 1], RefIncrement(p, j - 1))
    IN  acc[i]

\* C6: spot[i] = S0 * exp(L[i]), L[0] = 0, L[i] the sum over j < i of
\* r[j] = sqrt(V[j]) dB[j] - 0.5 V[j] dt with the left-point variance and
\* dB[j] = rho dW1[j] + sqrt(1 - rho^2) dW2[j]; spot[i] does not change when
\* the draws of index >= i change.
C6_LeftPointPrice ==
    Returned =>
        /\ \A p \in 1..n_paths : \A i \in 1..n_steps :
              prices[p][i] = FMul(S0, FExp(RefLogReturn(p, i)))
        /\ \A i \in 1..n_steps :
              LET later == i..(n_steps - 1)
                  spot == Simulate(n_steps, S0, V0, alpha, rho, eta, dt,
                                   PerturbPair(dW1Rows, 1..n_paths, later),
                                   PerturbW2(dW2Rows, 1..n_paths, later)).spot
              IN  \A p \in 1..n_paths : spot[p][i] = prices[p][i]

\* A return of four steps whose variance differs between the two ends of a
\* step and whose price moved at every step.
C6_Witness ==
    /\ Returned /\ n_steps = 4
    /\ variance[1][2] # variance[1][3] /\ variance[1][2] > 0 /\ variance[1][3] > 0
    /\ RefdB(1, 2) # 0
    /\ IsFinite(prices[1][3])
    /\ prices[1][2] # prices[1][1] /\ prices[1][3] # prices[1][2]
    /\ prices[1][3] = FMul(S0, FExp(FAdd(RefIncrement(1, 1), RefIncrement(1, 2))))

\* ------------------------------------------------------------------------
\* C7
\* ------------------------------------------------------------------------

\* The number of draws of a kind taken so far.
DrawCount(kind) == Cardinality({i \in 1..Len(drawLog) : drawLog[i] = kind})

\* C7: the source is consumed in a fixed order: no dW2 draw precedes a pair
\* draw, a dW2 draw is taken only once all n_paths * (n_steps - 1) pairs are,
\* nothing else consumes the source (two normals per pair, one per dW2
\* element), and a call that returns has taken n_paths * (n_steps - 1) draws
\* of each kind.
C7_DrawOrder ==
    /\ \A i \in 1..Len(drawLog) : \A j \in i..Len(drawLog) :
          ~(drawLog[i] = "dW2" /\ drawLog[j] = "dW1")
    /\ DrawCount("dW2") > 0 => DrawCount("dW1") = SampleSize(n_paths, n_steps)
    /\ rngPos = 2 * DrawCount("dW1") + DrawCount("dW2")
    /\ DrawCount("dW1") = Len(dW1) /\ DrawCount("dW2") = Len(dW2)
    /\ Returned =>
          /\ DrawCount("dW1") = SampleSize(n_paths, n_steps)
          /\ DrawCount("dW2") = SampleSize(n_paths, n_steps)

\* A call in the middle of its dW2 draws, all pairs taken.
C7_Witness ==
    /\ pc = "sample" /\ n_paths = 2 /\ n_steps = 3
    /\ drawLog = <<"dW1", "dW1", "dW1", "dW1", "dW2", "dW2">>
    /\ rngPos = 10

\* ------------------------------------------------------------------------
\* C8
\* ------------------------------------------------------------------------

\* C8: the rows of a path are those a batch of that path alone computes from
\* the same draws, and do not change when the draws of the other paths change.
C8_PathIndependence ==
    Returned =>
        \A p \in 1..n_paths :
            /\ LET alone == Simulate(n_steps, S0, V0, alpha, rho, eta, dt,
                                     <<dW1Rows[p]>>, <<dW2Rows[p]>>)
               IN  alone.spot[1] = prices[p] /\ alone.variance[1] = variance[p]
            /\ LET others == (1..n_paths) \ {p}
                   all == 1..(n_steps - 1)
                   other == Simulate(n_steps, S0, V0, alpha, rho, eta, dt,
                                     PerturbPair(dW1Rows, others, all),
                                     PerturbW2(dW2Rows, others, all))
               IN  other.spot[p] = prices[p] /\ other.variance[p] = variance[p]

\* A return of two paths whose draws and rows differ, where changing the
\* draws of the second path changes its own rows.
C8_Witness ==
    /\ Returned /\ n_paths = 2 /\ n_steps = 4
    /\ dW1Rows[1] # dW1Rows[2] /\ dW2Rows[1] # dW2Rows[2]
    /\ XiOf(dW1Rows[1])[1] # XiOf(dW1Rows[2])[1]
    /\ prices[1] # prices[2] /\ variance[1] # variance[2]
    /\ Y2[1][3] # Y2[2][3]
    /\ LET other == Simulate(n_steps, S0, V0, alpha, rho, eta, dt,
                             PerturbPair(dW1Rows, {2}, 1..3), PerturbW2(dW2Rows, {2}, 1..3))
       IN  other.spot[2] # prices[2] /\ other.variance[2] # variance[2]

\* ------------------------------------------------------------------------
\* C9
\* ------------------------------------------------------------------------

\* Line 121 has run: the kernel is built.
GammaBuilt == gamma # <<>>

\* C9 as stated: the kernel has length n_steps - 1, starts with two zeros
\* and is a function of (alpha, n_steps) alone.
C9_LengthStepsMinusOne ==
    GammaBuilt =>
        /\ Len(gamma) = n_steps - 1
        /\ gamma[1] = 0 /\ gamma[2] = 0

\* C9 amended: the kernel has length n_steps, starts with two zeros, and
\* entry k (0-based, k = 2..n_steps - 1) is (TBSS(k, alpha) / (n_steps - 1)) ^ alpha:
\* a function of (alpha, n_steps) alone.
C9_LengthSteps ==
    GammaBuilt =>
        /\ Len(gamma) = n_steps
        /\ gamma[1] = 0 /\ gamma[2] = 0
        /\ \A k \in 2..(n_steps - 1) :
              gamma[k + 1] =
                  FPow(FDiv(FPow(FDiv(FSub(FPow(k * Scale, alpha + Scale),
                                           FPow((k - 1) * Scale, alpha + Scale)),
                                      alpha + Scale),
                                 FDiv(Scale, alpha)),
                            (n_steps - 1) * Scale),
                       alpha)

\* A kernel of four steps with two distinct nonzero weights after the zeros.
C9_Witness ==
    /\ GammaBuilt /\ n_steps = 4 /\ Len(gamma) = 4
    /\ gamma[3] > 0 /\ gamma[4] > 0 /\ gamma[3] # gamma[4]

\* ------------------------------------------------------------------------
\* C10
\* ------------------------------------------------------------------------

\* C10: with valid parameters every entry of the returned spot and variance
\* is finite and strictly positive.
C10_PositiveFinite ==
    (Returned /\ ValidParameters) =>
        \A p \in 1..n_paths : \A i \in 1..n_steps :
            /\ IsFinite(prices[p][i]) /\ prices[p][i] > 0
            /\ IsFinite(variance[p][i]) /\ variance[p][i] > 0

====
